---- MODULE Spec2Model ----
(***************************************************************************)
(* Model of tools/video/cut_video.py: the VideoCutter job (validate, open, *)
(* one _cut_single_segment call per segment, then merge or clean up) and   *)
(* the two entry points cut_video and cut_video_by_scenes that wrap it.    *)
(***************************************************************************)
EXTENDS Integers, Sequences, FiniteSets, TLC

\* ------------------------------------------------------------------ bounds
MaxSegs == 2

\* ----------------------------------------------------------------- numbers
\* A Python float is a record [n, d]: the rational n/d in lowest terms with
\* d > 0, or NaN when d = 0 (json.loads accepts the literal NaN).
RECURSIVE GCD(_, _)
GCD(a, b) == IF b = 0 THEN a ELSE GCD(b, a % b)

Abs(a) == IF a < 0 THEN -a ELSE a

NaN == [n |-> 0, d |-> 0]

IsNaN(x) == x.d = 0

Q(a, b) ==
  IF b = 0 THEN NaN
  ELSE LET g == GCD(Abs(a), Abs(b))
           s == IF b < 0 THEN -1 ELSE 1
       IN  [n |-> (s * a) \div g, d |-> (s * b) \div g]

R(a) == [n |-> a, d |-> 1]

\* The one element of a singleton set. The arithmetic below binds its
\* operands with it, so that each operand is evaluated once.
The(S) == CHOOSE r \in S : TRUE

\* IEEE comparisons: every ordered comparison with NaN is false.
Lt(x, y) ==
  The({~IsNaN(a) /\ ~IsNaN(b) /\ a.n * b.d < b.n * a.d : a \in {x}, b \in {y}})

Le(x, y) ==
  The({~IsNaN(a) /\ ~IsNaN(b) /\ a.n * b.d <= b.n * a.d : a \in {x}, b \in {y}})

Gt(x, y) == Lt(y, x)

Ge(x, y) == Le(y, x)

\* IEEE arithmetic: NaN propagates.
FMul(x, y) ==
  The({IF IsNaN(a) \/ IsNaN(b) THEN NaN
       ELSE The({Q(p, q) : p \in {a.n * b.n}, q \in {a.d * b.d}}) : a \in {x}, b \in {y}})

\* x / y for y # 0 (the callers guard a zero divisor).
FDiv(x, y) ==
  The({IF IsNaN(a) \/ IsNaN(b) THEN NaN
       ELSE The({Q(p, q) : p \in {a.n * b.d}, q \in {a.d * b.n}}) : a \in {x}, b \in {y}})

FAdd(x, y) ==
  The({IF IsNaN(a) \/ IsNaN(b) THEN NaN
       ELSE The({Q(p, q) : p \in {a.n * b.d + b.n * a.d}, q \in {a.d * b.d}})
       : a \in {x}, b \in {y}})

FSub(x, y) ==
  The({IF IsNaN(a) \/ IsNaN(b) THEN NaN
       ELSE The({Q(p, q) : p \in {a.n * b.d - b.n * a.d}, q \in {a.d * b.d}})
       : a \in {x}, b \in {y}})

\* ------------------------------------------------------------- data model
\* CutMode: the values of the enumeration.
CutModes == {"time", "frame", "percentage", "scene"}

\* Python's None where a string is expected.
PyNone == "<None>"

\* CutSegment.label defaults to None.
NoLabel == PyNone

\* VideoQuality: the values of the enumeration.
VideoQualities == {"high", "medium", "low", "original"}

CutSegment(start, end, mode, label) ==
  [start |-> start, end |-> end, mode |-> mode, label |-> label]

\* The base output path, split as pathlib.Path splits it.
BasePath == [parent |-> "/out", stem |-> "video", suffix |-> ".mp4"]

\* _get_video_info: the fields the cutter reads. fps = 0 stands for an absent
\* (None) or zero frame rate: both are falsy.
GetVideoInfo(dur, rate) == [duration |-> dur, fps |-> rate]

\* ----------------------------------------------------------------- results
NoRes ==
  [status |-> "none", message |-> "", cause |-> "", index |-> -1,
   output_paths |-> <<>>, output_path |-> "", segments_count |-> -1,
   duration |-> NaN, scenes_detected |-> -1, scene_boundaries |-> <<>>,
   keys |-> {}]

ErrorResult(msg, cause, idx, ks) ==
  [NoRes EXCEPT !.status = "error", !.message = msg, !.cause = cause,
                !.index = idx, !.keys = ks]

\* An exception leaving a function instead of a returned dict.
Raised(cause) == [NoRes EXCEPT !.status = "raised", !.cause = cause]

Ev(op, seg, s, e, path, ok) ==
  [op |-> op, seg |-> seg, s |-> s, e |-> e, path |-> path, ok |-> ok]

\* --------------------------------------------------------- pure functions
\* Mutant: the empty segment list is not rejected.
ValidateInputsNoEmptyCheck(exists, segments) ==
  IF ~exists THEN "Video file not found" ELSE "ok"

\* Mutant: the segment list is checked before the path.
ValidateInputsEmptyFirst(exists, segments) ==
  IF Len(segments) = 0 THEN "No segments provided for cutting"
  ELSE IF ~exists THEN "Video file not found"
  ELSE "ok"

ValidateInputs(exists, segments) ==
  IF ~exists THEN "Video file not found"
  ELSE IF Len(segments) = 0 THEN "No segments provided for cutting"
  ELSE "ok"

\* Mutant: frames are divided by the frame rate without the test of line 279.
ConvertWithoutRateTest(segment, info) ==
  IF segment.mode = "time"
    THEN [ok |-> TRUE, s |-> segment.start, e |-> segment.end, cause |-> ""]
  ELSE IF segment.mode = "frame"
    THEN [ok |-> TRUE, s |-> FDiv(segment.start, R(info.fps)),
          e |-> FDiv(segment.end, R(info.fps)), cause |-> ""]
  ELSE IF segment.mode = "percentage"
    THEN [ok |-> TRUE,
          s |-> FMul(FDiv(segment.start, R(100)), info.duration),
          e |-> FMul(FDiv(segment.end, R(100)), info.duration), cause |-> ""]
  ELSE [ok |-> FALSE, s |-> NaN, e |-> NaN, cause |-> "Unsupported cut mode"]

\* Mutant: a percentage is taken for a fraction of the duration.
ConvertPercentageAsFraction(segment, info) ==
  IF segment.mode = "time"
    THEN [ok |-> TRUE, s |-> segment.start, e |-> segment.end, cause |-> ""]
  ELSE IF segment.mode = "frame"
    THEN IF info.fps = 0
           THEN [ok |-> FALSE, s |-> NaN, e |-> NaN,
                 cause |-> "Cannot use frame mode: video FPS not available"]
           ELSE [ok |-> TRUE, s |-> FDiv(segment.start, R(info.fps)),
                 e |-> FDiv(segment.end, R(info.fps)), cause |-> ""]
  ELSE IF segment.mode = "percentage"
    THEN [ok |-> TRUE,
          s |-> FMul(segment.start, info.duration),
          e |-> FMul(segment.end, info.duration), cause |-> ""]
  ELSE [ok |-> FALSE, s |-> NaN, e |-> NaN, cause |-> "Unsupported cut mode"]

ConvertSegmentToTime(segment, info) ==
  IF segment.mode = "time"
    THEN [ok |-> TRUE, s |-> segment.start, e |-> segment.end, cause |-> ""]
  ELSE IF segment.mode = "frame"
    THEN IF info.fps = 0
           THEN [ok |-> FALSE, s |-> NaN, e |-> NaN,
                 cause |-> "Cannot use frame mode: video FPS not available"]
           ELSE [ok |-> TRUE, s |-> FDiv(segment.start, R(info.fps)),
                 e |-> FDiv(segment.end, R(info.fps)), cause |-> ""]
  ELSE IF segment.mode = "percentage"
    THEN [ok |-> TRUE,
          s |-> FMul(FDiv(segment.start, R(100)), info.duration),
          e |-> FMul(FDiv(segment.end, R(100)), info.duration), cause |-> ""]
  ELSE [ok |-> FALSE, s |-> NaN, e |-> NaN, cause |-> "Unsupported cut mode"]

\* f"{index:03d}"
Pad3(index) ==
  IF index < 10 THEN "00" \o ToString(index)
  ELSE IF index < 100 THEN "0" \o ToString(index)
  ELSE ToString(index)

\* "if label:" is false for None and for the empty string.
Truthy(label) == label # NoLabel /\ label # ""

\* Mutant: the generated file name leaves the index out.
GenerateSegmentOutputPathNoIndex(base, index, label) ==
  LET filename ==
        IF Truthy(label) THEN base.stem \o "_" \o label \o base.suffix
        ELSE base.stem \o "_segment_" \o Pad3(0) \o base.suffix
  IN  base.parent \o "/" \o filename

GenerateSegmentOutputPath(base, index, label) ==
  LET filename ==
        IF Truthy(label) THEN base.stem \o "_" \o label \o base.suffix
        ELSE base.stem \o "_segment_" \o Pad3(index) \o base.suffix
  IN  base.parent \o "/" \o filename

\* Clamping of _cut_single_segment, lines 225-228.
ClampStart(s) == IF Lt(s, R(0)) THEN R(0) ELSE s

\* Mutant: an end past the end of the video is left as it is.
ClampEndNever(e, dur) == e

ClampEnd(e, dur) == IF Gt(e, dur) THEN dur ELSE e

\* The test of line 230.
InvalidSegment(s, e) == Ge(s, e)

\* Mutant: the outcome forgets the write of the segment's file.
OutcomeNoWrite(status, msg, cause, idx, evs, clipOpen, path, s, e) ==
  [status |-> status, message |-> msg, cause |-> cause, index |-> idx,
   events |-> SelectSeq(evs, LAMBDA ev : ev.op # "write"), clipOpen |-> clipOpen,
   path |-> path, start_time |-> s, end_time |-> e]

\* One call of _cut_single_segment: the set of its possible outcomes. An
\* outcome carries the returned dict (status, message, index named in the
\* message or -1, underlying cause), the library calls made in order, and
\* whether the sub-clip handle it created is open when it returns.
Outcome(status, msg, cause, idx, evs, clipOpen, path, s, e) ==
  [status |-> status, message |-> msg, cause |-> cause, index |-> idx,
   events |-> evs, clipOpen |-> clipOpen, path |-> path,
   start_time |-> s, end_time |-> e]

CutSingleSegment(segment, info, segment_index, merge_segments) ==
  LET conv == ConvertSegmentToTime(segment, info)
      s    == ClampStart(conv.s)
      e    == ClampEnd(conv.e, info.duration)
      path == GenerateSegmentOutputPath(BasePath, segment_index, segment.label)
      sub(ok) == Ev("subclip", segment_index, s, e, "", ok)
      wr(ok)  == Ev("write", segment_index, s, e, path, ok)
  IN  IF ~conv.ok
        THEN {Outcome("error", "Error cutting segment", conv.cause,
                      segment_index, <<>>, FALSE, "", NaN, NaN)}
      ELSE IF InvalidSegment(s, e)
        THEN {Outcome("error", "Invalid segment", "", -1, <<>>, FALSE, "", NaN, NaN)}
      ELSE {Outcome("error", "Error cutting segment", "subclip",
                    segment_index, <<sub(FALSE)>>, FALSE, "", NaN, NaN)}
           \cup
           (IF merge_segments
              THEN {Outcome("success", "", "", -1, <<sub(TRUE)>>, TRUE, "", s, e)}
              ELSE {Outcome("success", "", "", -1,
                            <<sub(TRUE), wr(TRUE)>>, TRUE, path, s, e),
                    Outcome("error", "Error cutting segment", "write",
                            segment_index, <<sub(TRUE), wr(FALSE)>>, TRUE, "", NaN, NaN)})

\* Mutant: a failed segment is passed over and the loop goes on.
SegmentAbortsNever(clip_result) == FALSE

\* Mutant: a write error does not end the job.
SegmentAbortsUnlessWrite(clip_result) ==
  clip_result.status = "error" /\ clip_result.cause # "write"

\* Line 138: a failed segment ends the job.
SegmentAborts(clip_result) == clip_result.status = "error"

\* Mutant: the newest path is put first.
PrependPath(output_paths, p) == <<p>> \o output_paths

\* Line 144.
AppendPath(output_paths, p) == Append(output_paths, p)

\* The handler of lines 165-171.
CutterExcept(cause) ==
  ErrorResult("Failed to cut video", cause, -1, {"output_path"})

H(kind, id) == [kind |-> kind, id |-> id]

\* A sub-clip: the segment it was cut for and the interval it covers.
Clip(id, s, e) == [id |-> id, s |-> s, e |-> e]

ClipHandles(clips) == {H("clip", clips[k].id) : k \in 1..Len(clips)}

\* Mutant: a clip covering the interval of an earlier clip is dropped.
RECURSIVE ConcatInputDeduplicated(_)
ConcatInputDeduplicated(clips) ==
  IF Len(clips) = 0 THEN <<>>
  ELSE LET front == ConcatInputDeduplicated(SubSeq(clips, 1, Len(clips) - 1))
           last  == clips[Len(clips)]
       IN  IF \E k \in 1..Len(front) : front[k].s = last.s /\ front[k].e = last.e
             THEN front
             ELSE Append(front, last)

\* Line 351: the list handed to concatenate_videoclips is cut_clips as the
\* loop of line 133 built it.
ConcatInput(clips) == clips

\* Mutant: the duration reported is that of the first clip.
ConcatDurationOfFirst(clips) ==
  IF Len(clips) = 0 THEN R(0) ELSE FSub(Head(clips).e, Head(clips).s)

\* concatenate_videoclips(clips).duration: the sum of the clips' durations.
RECURSIVE ConcatDuration(_)
ConcatDuration(clips) ==
  IF Len(clips) = 0 THEN R(0)
  ELSE FAdd(FSub(Head(clips).e, Head(clips).s), ConcatDuration(Tail(clips)))

\* One call of _merge_segments: the set of its possible outcomes (the dict it
\* returns, the library calls it made, the handles open when it returns).
MergeOutcome(res, evs, open) == [result |-> res, events |-> evs, open |-> open]

MergeSegments(clips, openBefore) ==
  LET cat(ok) == Ev("concatenate", Len(clips), NaN, NaN, "", ok)
      wr(ok)  == Ev("write_merged", -1, NaN, NaN, BasePath.parent \o "/" \o BasePath.stem \o BasePath.suffix, ok)
      err     == ErrorResult("Error merging segments", "merge", -1, {"output_path"})
  IN  IF Len(clips) = 0
        THEN {MergeOutcome(ErrorResult("No clips to merge", "", -1, {"output_path"}),
                           <<>>, openBefore)}
      ELSE {MergeOutcome(err, <<cat(FALSE)>>, openBefore),
            MergeOutcome(err, <<cat(TRUE), wr(FALSE)>>, openBefore \cup {H("final", 0)}),
            MergeOutcome([NoRes EXCEPT !.status = "success",
                                       !.message = "Successfully merged",
                                       !.output_path = wr(TRUE).path,
                                       !.duration = ConcatDuration(ConcatInput(clips)),
                                       !.segments_count = Len(clips),
                                       !.keys = {"output_path", "duration", "segments_count"}],
                         <<cat(TRUE), wr(TRUE)>>,
                         openBefore \ ClipHandles(clips))}

\* ------------------------------------------------------------------ state
VARIABLES
  entry,        \* the entry point called: "cutter", "cut_video" or "scenes"
  pc,           \* position of the call
  videoExists,  \* os.path.exists(video_path)
  duration,     \* the source's duration
  fps,          \* the source's frame rate, 0 when absent
  segs,         \* VideoCutter.cut_video's segments argument
  merge,        \* its merge_segments argument
  i,            \* 1-based position of the loop of line 133
  events,       \* file-system and library calls made so far, in order
  handles,      \* video and clip handles that are open
  cutClips,     \* cut_clips
  outputPaths,  \* output_paths
  result,       \* what the call returned
  failed,       \* history: indexes of the segments whose processing failed
  fnArgs,       \* cut_video's cut_mode, quality and cuts arguments
  scan,         \* cut_video_by_scenes's arguments and the locals of its scan
  merged,       \* history: the clips handed to concatenate_videoclips
  jobs,         \* concurrent calls of _write_video_clip, one record per job
  tempAudio,    \* the file "temp-audio.m4a" of the working directory
  resolved      \* what a direct call of _convert_segment_to_time returned

vars ==
  <<entry, pc, videoExists, duration, fps, segs, merge, i, events, handles,
    cutClips, outputPaths, result, failed, fnArgs, scan, merged, jobs, tempAudio,
    resolved>>

\* ------------------------------------------------ inputs of the cutter job
Durations == {R(0), R(4)}

FrameRates == {0, 2}

Labels == {NoLabel, "intro"}

\* (start, end, mode): in range, inverted, out of range on both sides, past
\* the end, not a number, frames, percentages (in range, end above 100, both
\* above 100), and a mode the resolver does not know.
Coords ==
  { <<R(1), R(2), "time">>, <<R(2), R(1), "time">>, <<R(-1), R(9), "time">>,
    <<R(5), R(9), "time">>, <<NaN, R(2), "time">>,
    <<R(2), R(4), "frame">>,
    <<R(0), R(150), "percentage">>, <<R(-50), R(50), "percentage">>,
    <<R(120), R(150), "percentage">>,
    <<R(0), R(1), "scene">> }

\* A segment labelled with the name generated for an unlabeled segment.
GeneratedNameSegment == CutSegment(R(1), R(2), "time", "segment_000")

Segments ==
  {CutSegment(c[1], c[2], c[3], l) : c \in Coords, l \in Labels}
    \cup {GeneratedNameSegment}

RECURSIVE SeqsUpTo(_, _)
SeqsUpTo(S, n) ==
  IF n = 0 THEN {<<>>}
  ELSE LET shorter == SeqsUpTo(S, n - 1)
       IN  shorter \cup {Append(q, x) : q \in {r \in shorter : Len(r) = n - 1}, x \in S}

\* No concurrent writer: the state of the file system seen by a single call.
NoJobs == <<>>

Absent == "<absent>"

conc == <<jobs, tempAudio>>

Idle ==
  /\ i = 1
  /\ events = <<>>
  /\ handles = {}
  /\ cutClips = <<>>
  /\ outputPaths = <<>>
  /\ result = NoRes
  /\ failed = {}
  /\ merged = <<>>
  /\ jobs = NoJobs
  /\ tempAudio = Absent
  /\ resolved = <<>>

NoArgs == [cut_mode |-> "", quality |-> "", cuts |-> [kind |-> "", pairs |-> <<>>]]

NoScan ==
  [threshold |-> 0, min_scene_length |-> 0, max_scenes |-> <<>>,
   current_time |-> 0, prev_frame |-> <<>>, scene_start |-> R(0), scenes |-> <<>>]

Init ==
  /\ entry = "cutter"
  /\ fnArgs = NoArgs
  /\ scan = NoScan
  /\ pc = "validate"
  /\ videoExists \in BOOLEAN
  /\ duration \in Durations
  /\ fps \in FrameRates
  /\ segs \in SeqsUpTo(Segments, MaxSegs)
  /\ merge \in BOOLEAN
  /\ Idle

\* -------------------------------------------------- VideoCutter.cut_video
inputs == <<entry, videoExists, duration, fps, segs, merge, fnArgs, scan>>

\* The cutter returns: to its caller, or to the program when called directly.
CutterReturn(res) ==
  /\ result' = res
  /\ pc' = IF entry = "cutter" THEN "done" ELSE "cutter_ret"

\* Lines 117-123 and _validate_inputs.
CutterValidate ==
  /\ pc = "validate"
  /\ LET v == ValidateInputs(videoExists, segs)
     IN  IF v # "ok"
           THEN /\ CutterReturn(ErrorResult(v, "", -1, {"output_path"}))
                /\ UNCHANGED events
           ELSE \E made \in BOOLEAN :
                  /\ events' = Append(events, Ev("makedirs", -1, NaN, NaN, BasePath.parent, made))
                  /\ IF made
                       THEN pc' = "open" /\ UNCHANGED result
                       ELSE CutterReturn(CutterExcept("makedirs"))
  /\ UNCHANGED <<inputs, i, handles, cutClips, outputPaths, failed, merged, conc, resolved>>

\* Lines 126-131.
CutterOpen ==
  /\ pc = "open"
  /\ \E opened \in BOOLEAN :
       /\ events' = Append(events, Ev("open", -1, NaN, NaN, "", opened))
       /\ IF opened
            THEN /\ handles' = handles \cup {H("video", 0)}
                 /\ pc' = "loop"
                 /\ UNCHANGED result
            ELSE /\ CutterReturn(CutterExcept("open"))
                 /\ UNCHANGED handles
  /\ UNCHANGED <<inputs, i, cutClips, outputPaths, failed, merged, conc, resolved>>

\* One iteration of the loop of lines 133-144.
CutterSegment ==
  /\ pc = "loop"
  /\ i <= Len(segs)
  /\ \E o \in CutSingleSegment(segs[i], GetVideoInfo(duration, fps), i - 1, merge) :
       /\ events' = events \o o.events
       /\ failed' = IF o.status = "error" THEN failed \cup {i - 1} ELSE failed
       /\ IF SegmentAborts(o)
            THEN /\ handles' = (handles \cup (IF o.clipOpen THEN {H("clip", i - 1)} ELSE {}))
                                 \ {H("video", 0)}
                 /\ CutterReturn([NoRes EXCEPT !.status = o.status, !.message = o.message,
                                               !.cause = o.cause, !.index = o.index])
                 /\ UNCHANGED <<i, cutClips, outputPaths>>
            ELSE /\ handles' = handles \cup (IF o.clipOpen THEN {H("clip", i - 1)} ELSE {})
                 /\ cutClips' = Append(cutClips, Clip(i - 1, o.start_time, o.end_time))
                 /\ outputPaths' = IF merge THEN outputPaths ELSE AppendPath(outputPaths, o.path)
                 /\ i' = i + 1
                 /\ UNCHANGED <<pc, result>>
  /\ UNCHANGED <<inputs, merged, conc, resolved>>

\* Lines 151-163: the clips and the source are closed, success is returned.
CutterFinish ==
  /\ pc = "loop"
  /\ i > Len(segs)
  /\ ~merge
  /\ handles' = (handles \ ClipHandles(cutClips)) \ {H("video", 0)}
  /\ CutterReturn([NoRes EXCEPT !.status = "success", !.message = "Successfully cut video",
                                !.output_paths = outputPaths, !.segments_count = Len(segs),
                                !.keys = {"output_paths", "segments_count", "original_duration"}])
  /\ UNCHANGED <<inputs, i, events, cutClips, outputPaths, failed, merged, conc, resolved>>

\* Lines 147-150: the clips are merged, the source is closed.
CutterMerge ==
  /\ pc = "loop"
  /\ i > Len(segs)
  /\ merge
  /\ \E m \in MergeSegments(cutClips, handles) :
       /\ events' = events \o m.events
       /\ handles' = m.open \ {H("video", 0)}
       /\ merged' = IF m.events = <<>> THEN merged ELSE ConcatInput(cutClips)
       /\ CutterReturn(m.result)
  /\ UNCHANGED <<inputs, i, cutClips, outputPaths, failed, conc, resolved>>

Cutter == CutterValidate \/ CutterOpen \/ CutterSegment \/ CutterFinish \/ CutterMerge

Next == Cutter

Spec == Init /\ [][Next]_vars

\* ------------------------------------------------- the cut_video function
\* str.lower() on the spellings the model passes.
Lower(s) ==
  IF s = "TIME" THEN "time" ELSE IF s = "Original" THEN "original" ELSE s

\* Mutant: the handler lets the exception through.
CutVideoExceptReraises(cause) == Raised(cause)

\* The handler of lines 492-497.
CutVideoExcept(cause) ==
  ErrorResult("Unexpected error in cut_video", cause, -1, {"output_path"})

\* Lines 466-473: one CutSegment per pair, labelled seg_1, seg_2, ...
RECURSIVE CreateSegments(_, _, _)
CreateSegments(pairs, mode, k) ==
  IF k > Len(pairs) THEN <<>>
  ELSE <<CutSegment(pairs[k][1], pairs[k][2], mode, "seg_" \o ToString(k))>>
         \o CreateSegments(pairs, mode, k + 1)

\* Mutant: the quality is parsed before the mode.
ParseArgsQualityFirst(args) ==
  IF args.quality = PyNone
    THEN [kind |-> "raise", cause |-> "AttributeError", segments |-> <<>>]
  ELSE IF Lower(args.quality) \notin VideoQualities
    THEN [kind |-> "return", cause |-> "Invalid quality", segments |-> <<>>]
  ELSE IF args.cut_mode = PyNone
    THEN [kind |-> "raise", cause |-> "AttributeError", segments |-> <<>>]
  ELSE IF Lower(args.cut_mode) \notin CutModes
    THEN [kind |-> "return", cause |-> "Invalid cut mode", segments |-> <<>>]
  ELSE IF args.cuts.kind = "none"
    THEN [kind |-> "raise", cause |-> "TypeError", segments |-> <<>>]
  ELSE IF args.cuts.kind = "badjson"
    THEN [kind |-> "return", cause |-> "Invalid cuts JSON format", segments |-> <<>>]
  ELSE IF args.cuts.kind = "notlist"
    THEN [kind |-> "raise", cause |-> "Cuts must be a list of [start, end] pairs",
          segments |-> <<>>]
  ELSE IF args.cuts.kind = "badpairs"
    THEN [kind |-> "raise", cause |-> "unpack", segments |-> <<>>]
  ELSE [kind |-> "ok", cause |-> "",
        segments |-> CreateSegments(args.cuts.pairs, Lower(args.cut_mode), 1)]

\* Lines 432-473: what the parsing of the arguments ends in: an error dict
\* returned, an exception for the outer handler, or the segments to cut.
ParseArgs(args) ==
  IF args.cut_mode = PyNone
    THEN [kind |-> "raise", cause |-> "AttributeError", segments |-> <<>>]
  ELSE IF Lower(args.cut_mode) \notin CutModes
    THEN [kind |-> "return", cause |-> "Invalid cut mode", segments |-> <<>>]
  ELSE IF args.quality = PyNone
    THEN [kind |-> "raise", cause |-> "AttributeError", segments |-> <<>>]
  ELSE IF Lower(args.quality) \notin VideoQualities
    THEN [kind |-> "return", cause |-> "Invalid quality", segments |-> <<>>]
  ELSE IF args.cuts.kind = "none"
    THEN [kind |-> "raise", cause |-> "TypeError", segments |-> <<>>]
  ELSE IF args.cuts.kind = "badjson"
    THEN [kind |-> "return", cause |-> "Invalid cuts JSON format", segments |-> <<>>]
  ELSE IF args.cuts.kind = "notlist"
    THEN [kind |-> "raise", cause |-> "Cuts must be a list of [start, end] pairs",
          segments |-> <<>>]
  ELSE IF args.cuts.kind = "badpairs"
    THEN [kind |-> "raise", cause |-> "unpack", segments |-> <<>>]
  ELSE [kind |-> "ok", cause |-> "",
        segments |-> CreateSegments(args.cuts.pairs, Lower(args.cut_mode), 1)]

\* Lines 432-488, up to the call of VideoCutter.cut_video.
CutVideoParse ==
  /\ pc = "fn_parse"
  /\ LET parsed == ParseArgs(fnArgs)
     IN  IF parsed.kind = "ok"
           THEN /\ segs' = parsed.segments
                /\ pc' = "validate"
                /\ UNCHANGED result
           ELSE /\ result' = IF parsed.kind = "raise" THEN CutVideoExcept(parsed.cause)
                              ELSE ErrorResult(parsed.cause, "", -1, {"output_path"})
                /\ pc' = "done"
                /\ UNCHANGED segs
  /\ UNCHANGED <<entry, videoExists, duration, fps, merge, fnArgs, scan, i, events,
                 handles, cutClips, outputPaths, failed, merged, conc, resolved>>

\* Lines 483-497: the cutter's result is returned.
CutVideoReturn ==
  /\ pc = "cutter_ret"
  /\ entry = "cut_video"
  /\ result' = IF result.status = "raised" THEN CutVideoExcept(result.cause) ELSE result
  /\ pc' = "done"
  /\ UNCHANGED <<inputs, i, events, handles, cutClips, outputPaths, failed, merged, conc, resolved>>

CutVideoFn == CutVideoParse \/ CutVideoReturn

\* ---------------------------------------------------- cut_video_by_scenes
\* Mutant: the handler lets the exception through.
ScenesExceptReraises(cause) == Raised(cause)

\* The handler of lines 592-597.
ScenesExcept(cause) ==
  ErrorResult("Error in scene-based cutting", cause, -1, {"output_path"})

\* Line 544 on frames reduced to one brightness value each.
FrameDiff(frame, prev_frame) == Abs(frame - prev_frame)

\* Mutant: a difference equal to the threshold makes a boundary.
IsBoundaryAtThreshold(diff, threshold, current_time, scene_start, min_scene_length) ==
  diff >= threshold /\ Ge(FSub(R(current_time), scene_start), R(min_scene_length))

\* The test of line 547.
IsBoundary(diff, threshold, current_time, scene_start, min_scene_length) ==
  diff > threshold /\ Ge(FSub(R(current_time), scene_start), R(min_scene_length))

\* Line 564: "if max_scenes and len(scenes) > max_scenes"; None is <<>>.
LimitScenes(scenes, max_scenes) ==
  IF max_scenes # <<>> /\ max_scenes[1] # 0 /\ Len(scenes) > max_scenes[1]
    THEN \* scenes[:max_scenes], a negative bound counting from the end
         LET n == IF max_scenes[1] < 0
                    THEN (IF Len(scenes) + max_scenes[1] < 0 THEN 0
                          ELSE Len(scenes) + max_scenes[1])
                    ELSE max_scenes[1]
         IN  SubSeq(scenes, 1, n)
    ELSE scenes

\* Mutant: the scenes are labelled scene_0, scene_1, ...
RECURSIVE ScenesToSegmentsFromZero(_, _)
ScenesToSegmentsFromZero(scenes, k) ==
  IF k > Len(scenes) THEN <<>>
  ELSE <<CutSegment(scenes[k][1], scenes[k][2], "time", "scene_" \o ToString(k - 1))>>
         \o ScenesToSegmentsFromZero(scenes, k + 1)

\* Lines 570-573: one Time segment per scene, labelled scene_1, scene_2, ...
RECURSIVE ScenesToSegments(_, _)
ScenesToSegments(scenes, k) ==
  IF k > Len(scenes) THEN <<>>
  ELSE <<CutSegment(scenes[k][1], scenes[k][2], "time", "scene_" \o ToString(k))>>
         \o ScenesToSegments(scenes, k + 1)

\* Lines 560-561: the scene that runs to the end of the video.
AddFinalScene(scenes, scene_start, dur) ==
  IF Lt(scene_start, dur) THEN Append(scenes, <<scene_start, dur>>) ELSE scenes

Frames == {0, 30, 60}

\* Lines 523-536.
ScenesOpen ==
  /\ pc = "sc_open"
  /\ \E opened \in (IF videoExists THEN BOOLEAN ELSE {FALSE}) :
       /\ events' = Append(events, Ev("open_scan", -1, NaN, NaN, "", opened))
       /\ IF opened
            THEN /\ handles' = handles \cup {H("scan", 0)}
                 /\ pc' = "sc_loop"
                 /\ UNCHANGED result
            ELSE /\ result' = ScenesExcept("open")
                 /\ pc' = "done"
                 /\ UNCHANGED handles
  /\ UNCHANGED <<inputs, i, cutClips, outputPaths, failed, merged, conc, resolved>>

\* Mutant: the handler of a failed sample does not advance the sample time.
ScenesSampleRetries ==
  /\ pc = "sc_loop"
  /\ Lt(R(scan.current_time), duration)
  /\ \/ /\ UNCHANGED scan
        /\ events' = Append(events, Ev("get_frame", scan.current_time, NaN, NaN, "", FALSE))
     \/ \E frame \in Frames :
          LET cut == /\ scan.prev_frame # <<>>
                     /\ IsBoundary(FrameDiff(frame, scan.prev_frame[1]), scan.threshold,
                                   scan.current_time, scan.scene_start,
                                   scan.min_scene_length)
          IN  /\ scan' = [scan EXCEPT
                            !.scenes = IF cut THEN Append(@, <<scan.scene_start, R(scan.current_time)>>)
                                       ELSE @,
                            !.scene_start = IF cut THEN R(scan.current_time) ELSE @,
                            !.prev_frame = <<frame>>,
                            !.current_time = @ + 1]
              /\ events' = Append(events, Ev("get_frame", scan.current_time, NaN, NaN, "", TRUE))
  /\ UNCHANGED <<entry, videoExists, duration, fps, segs, merge, fnArgs, pc, i, handles,
                 cutClips, outputPaths, result, failed, merged, conc, resolved>>

\* One iteration of the loop of lines 538-557.
ScenesSample ==
  /\ pc = "sc_loop"
  /\ Lt(R(scan.current_time), duration)
  /\ \/ \* get_frame raises: the sample is skipped
        /\ scan' = [scan EXCEPT !.current_time = @ + 1]
        /\ events' = Append(events, Ev("get_frame", scan.current_time, NaN, NaN, "", FALSE))
     \/ \E frame \in Frames :
          LET cut == /\ scan.prev_frame # <<>>
                     /\ IsBoundary(FrameDiff(frame, scan.prev_frame[1]), scan.threshold,
                                   scan.current_time, scan.scene_start,
                                   scan.min_scene_length)
          IN  /\ scan' = [scan EXCEPT
                            !.scenes = IF cut THEN Append(@, <<scan.scene_start, R(scan.current_time)>>)
                                       ELSE @,
                            !.scene_start = IF cut THEN R(scan.current_time) ELSE @,
                            !.prev_frame = <<frame>>,
                            !.current_time = @ + 1]
              /\ events' = Append(events, Ev("get_frame", scan.current_time, NaN, NaN, "", TRUE))
  /\ UNCHANGED <<entry, videoExists, duration, fps, segs, merge, fnArgs, pc, i, handles,
                 cutClips, outputPaths, result, failed, merged, conc, resolved>>

\* Lines 559-584, up to the call of VideoCutter.cut_video.
ScenesCut ==
  /\ pc = "sc_loop"
  /\ ~Lt(R(scan.current_time), duration)
  /\ LET all  == AddFinalScene(scan.scenes, scan.scene_start, duration)
         kept == LimitScenes(all, scan.max_scenes)
     IN  /\ scan' = [scan EXCEPT !.scenes = kept]
         /\ segs' = ScenesToSegments(kept, 1)
  /\ handles' = handles \ {H("scan", 0)}
  /\ merge' = FALSE
  /\ pc' = "validate"
  /\ UNCHANGED <<entry, videoExists, duration, fps, fnArgs, i, events, cutClips,
                 outputPaths, result, failed, merged, conc, resolved>>

\* Lines 586-597.
ScenesReturn ==
  /\ pc = "cutter_ret"
  /\ entry = "scenes"
  /\ result' =
       IF result.status = "raised" THEN ScenesExcept(result.cause)
       ELSE IF result.status = "success"
         THEN [result EXCEPT !.scenes_detected = Len(scan.scenes),
                             !.scene_boundaries = scan.scenes,
                             !.keys = @ \cup {"scenes_detected", "scene_boundaries"}]
       ELSE result
  /\ pc' = "done"
  /\ UNCHANGED <<inputs, i, events, handles, cutClips, outputPaths, failed, merged, conc, resolved>>

CutVideoByScenes == ScenesOpen \/ ScenesSample \/ ScenesCut \/ ScenesReturn

\* -------------------------------------------- inputs of the entry points
CutModeArgs == {"time", "TIME", "frame", "percentage", "scene", "bogus", PyNone}

QualityArgs == {"Original", "high", "bogus", PyNone}

Pairs == {<<R(1), R(2)>>, <<R(2), R(1)>>, <<R(0), R(150)>>}

CutsArgs ==
  {[kind |-> k, pairs |-> <<>>] : k \in {"none", "badjson", "notlist", "badpairs"}}
    \cup {[kind |-> "list", pairs |-> ps] : ps \in SeqsUpTo(Pairs, MaxSegs)}

InitFn ==
  /\ entry = "cut_video"
  /\ pc = "fn_parse"
  /\ videoExists \in BOOLEAN
  /\ duration = R(4)
  /\ fps \in FrameRates
  /\ segs = <<>>
  /\ merge \in BOOLEAN
  /\ fnArgs \in [cut_mode : CutModeArgs, quality : QualityArgs, cuts : CutsArgs]
  /\ scan = NoScan
  /\ Idle

SceneDurations == {R(0), Q(5, 2), R(3)}

InitScenes ==
  /\ entry = "scenes"
  /\ pc = "sc_open"
  /\ videoExists \in BOOLEAN
  /\ duration \in SceneDurations
  /\ fps = 2
  /\ segs = <<>>
  /\ merge = FALSE
  /\ fnArgs = NoArgs
  /\ scan \in [threshold : {30}, min_scene_length : {1, 2},
                max_scenes : {<<>>, <<0>>, <<1>>, <<-1>>}, current_time : {0},
                prev_frame : {<<>>}, scene_start : {R(0)}, scenes : {<<>>}]
  /\ Idle

InitEntry == InitFn \/ InitScenes

\* ------------------------------------ a direct call of the resolver
\* Coordinates below 0, in range, fractional, above 100, and not a number.
ResolverCoords == {R(-1), R(0), R(3), Q(7, 2), R(150), NaN}

ResolverDurations == {R(0), Q(5, 2), R(4)}

ResolverRates == {0, 2, 3}

InitResolve ==
  /\ entry = "resolver"
  /\ pc = "resolve"
  /\ videoExists = TRUE
  /\ duration \in ResolverDurations
  /\ fps \in ResolverRates
  /\ segs \in {<<CutSegment(a, b, m, NoLabel)>> : a \in ResolverCoords, b \in ResolverCoords,
                                                m \in CutModes}
  /\ merge = FALSE
  /\ fnArgs = NoArgs
  /\ scan = NoScan
  /\ Idle

\* _convert_segment_to_time(segment, video_info), lines 269-292.
Resolve ==
  /\ pc = "resolve"
  /\ resolved' = <<ConvertSegmentToTime(segs[1], GetVideoInfo(duration, fps))>>
  /\ pc' = "done"
  /\ UNCHANGED <<inputs, i, events, handles, cutClips, outputPaths, result, failed,
                 merged, conc>>

NextResolve == Resolve

SpecResolve == InitResolve /\ [][NextResolve]_vars

\* ------------------------- two jobs writing clips at the same time
\* Each job calls _write_video_clip once per clip it has to write. With
\* line 318 every call hands write_videofile the same temp_audiofile,
\* "temp-audio.m4a" of the working directory: write_videofile writes the
\* clip's audio to that file, incorporates the file into the movie it
\* writes, and removes it (remove_temp, line 319). A clip without audio
\* is written without the temporary file.
Jobs == {"A", "B"}

InitConcurrent ==
  /\ entry = "concurrent"
  /\ pc = "jobs"
  /\ videoExists = TRUE
  /\ duration = R(4)
  /\ fps = 2
  /\ segs = <<>>
  /\ merge = FALSE
  /\ fnArgs = NoArgs
  /\ scan = NoScan
  /\ i = 1 /\ events = <<>> /\ handles = {} /\ cutClips = <<>> /\ outputPaths = <<>>
  /\ result = NoRes /\ failed = {} /\ merged = <<>> /\ resolved = <<>>
  /\ jobs \in [Jobs -> [pc : {"write"}, left : 1..MaxSegs, audio : BOOLEAN,
                        written : {<<>>}, status : {"running"}]]
  /\ tempAudio = Absent

JobUnchanged ==
  UNCHANGED <<inputs, pc, i, events, handles, cutClips, outputPaths, result, failed,
              merged, resolved>>

\* write_videofile starts on the job's next clip: the clip's audio is
\* written to the temporary file, whatever the file held.
JobAudio(j) ==
  /\ jobs[j].pc = "write"
  /\ IF jobs[j].audio
       THEN /\ tempAudio' = j
            /\ jobs' = [jobs EXCEPT ![j].pc = "mux"]
       ELSE /\ jobs' = [jobs EXCEPT ![j].pc = "mux"]
            /\ UNCHANGED tempAudio
  /\ JobUnchanged

\* The movie is written with the audio found in the temporary file; the
\* write raises when the file is not there, and the job ends in error
\* (lines 263-267).
JobMux(j) ==
  /\ jobs[j].pc = "mux"
  /\ jobs' = IF ~jobs[j].audio
               THEN [jobs EXCEPT ![j].written = Append(@, "<silent>"), ![j].pc = "remove"]
             ELSE IF tempAudio = Absent
               THEN [jobs EXCEPT ![j].status = "error", ![j].pc = "done"]
             ELSE [jobs EXCEPT ![j].written = Append(@, tempAudio), ![j].pc = "remove"]
  /\ UNCHANGED tempAudio
  /\ JobUnchanged

\* The temporary file is removed if it is there; the job goes on to its
\* next clip or returns success.
JobRemove(j) ==
  /\ jobs[j].pc = "remove"
  /\ tempAudio' = IF jobs[j].audio THEN Absent ELSE tempAudio
  /\ jobs' = [jobs EXCEPT ![j].left = @ - 1,
                          ![j].pc = IF jobs[j].left = 1 THEN "done" ELSE "write",
                          ![j].status = IF jobs[j].left = 1 THEN "success" ELSE @]
  /\ JobUnchanged

NextConcurrent == \E j \in Jobs : JobAudio(j) \/ JobMux(j) \/ JobRemove(j)

SpecConcurrent == InitConcurrent /\ [][NextConcurrent]_vars

NextEntry == CutVideoFn \/ CutVideoByScenes \/ Cutter

SpecEntry == InitEntry /\ [][NextEntry]_vars

\* The calls are synchronous: a call that can take a step takes it.
SpecEntryFair == SpecEntry /\ WF_vars(NextEntry)

\* ------------------------------------------------------------------ claims
Returned == pc = "done"

EventsOf(ops) == {k \in 1..Len(events) : events[k].op \in ops}

SegmentEvents == EventsOf({"subclip", "write"})

Info == GetVideoInfo(duration, fps)

\* C1: every interval handed to subclip satisfies
\* 0 <= start < end <= duration, whatever the requested coordinates.
C1_ClampingInvariant ==
  \A k \in EventsOf({"subclip"}) :
    /\ Le(R(0), events[k].s)
    /\ Lt(events[k].s, events[k].e)
    /\ Le(events[k].e, duration)

\* A segment that resolves to start >= end after clamping.
ResolvesEmpty(segment) ==
  LET conv == ConvertSegmentToTime(segment, Info)
  IN  conv.ok /\ Ge(ClampStart(conv.s), ClampEnd(conv.e, duration))

\* Every coordinate of the job is a number. The claims below that the code
\* falsifies are stated for such jobs, so that their violation owes nothing
\* to the NaN case of C1.
NumericSegments ==
  \A k \in 1..Len(segs) : ~IsNaN(segs[k].start) /\ ~IsNaN(segs[k].end)

\* C2: a non-merge job with a segment that resolves to start >= end after
\* clamping returns an error and has written no segment file at all.
C2_NoFileOnInvalidSegment ==
  (/\ Returned /\ ~merge /\ NumericSegments
   /\ \E k \in 1..Len(segs) : ResolvesEmpty(segs[k]))
    => /\ result.status = "error"
       /\ \A k \in EventsOf({"write"}) : ~events[k].ok

\* C3: a non-merge job of N segments returns success with N output paths,
\* segments_count = N and a completed write for each segment, or an error.
C3_AllOrError ==
  (Returned /\ entry = "cutter" /\ ~merge)
    => \/ result.status = "error"
       \/ /\ result.status = "success"
          /\ Len(result.output_paths) = Len(segs)
          /\ result.segments_count = Len(segs)
          /\ \A s \in 0..(Len(segs) - 1) :
               \E k \in EventsOf({"write"}) : events[k].seg = s /\ events[k].ok

C3_Witness ==
  /\ Returned /\ ~merge /\ result.status = "success"
  /\ Len(segs) = 2 /\ Len(result.output_paths) = 2

\* C4: once the processing of segment i has failed, nothing is cut or written
\* for a later segment, and the job returns an error.
C4_FailFast ==
  \A f \in failed :
    /\ \A k \in SegmentEvents : events[k].seg <= f
    /\ i = f + 1
    /\ Returned => result.status = "error"

C4_Witness ==
  /\ Returned /\ failed = {0} /\ Len(segs) = 2
  /\ \E k \in EventsOf({"write"}) : ~events[k].ok

\* C5: an empty segment list on an existing source fails with 'No segments
\* provided'; nothing is opened, created or written.
C5_NoSegmentsProvided ==
  (Returned /\ entry = "cutter" /\ videoExists /\ Len(segs) = 0)
    => /\ result.status = "error"
       /\ result.message = "No segments provided for cutting"
       /\ events = <<>>
       /\ handles = {}

C5_Witness ==
  /\ Returned /\ videoExists /\ segs = <<>>
  /\ result.message = "No segments provided for cutting"

\* C6: a missing input path fails with 'Video file not found' whatever the
\* segment list; nothing is opened, created, processed or retried.
C6_SourceNotFound ==
  (Returned /\ entry = "cutter" /\ ~videoExists)
    => /\ result.status = "error"
       /\ result.message = "Video file not found"
       /\ events = <<>>
       /\ handles = {}
       /\ i = 1 /\ cutClips = <<>> /\ failed = {}

C6_Witness ==
  /\ Returned /\ ~videoExists /\ segs = <<>>
  /\ result.message = "Video file not found"

\* The interval the cutter resolves a segment to.
Resolved(segment) ==
  LET conv == ConvertSegmentToTime(segment, Info)
  IN  <<ClampStart(conv.s), ClampEnd(conv.e, duration)>>

\* C8: segments are resolved and extracted in input order, and the i-th
\* entry of output_paths is the file written for the i-th input segment.
C8_OrderPreserved ==
  /\ \A k \in 1..Len(cutClips) :
       /\ cutClips[k].id = k - 1
       /\ <<cutClips[k].s, cutClips[k].e>> = Resolved(segs[k])
  /\ \A a, b \in EventsOf({"subclip"}) : a < b => events[a].seg < events[b].seg
  /\ (Returned /\ entry = "cutter" /\ ~merge /\ result.status = "success")
       => \A s \in 1..Len(segs) :
            \E k \in EventsOf({"write"}) :
              /\ events[k].seg = s - 1
              /\ events[k].path = result.output_paths[s]
              /\ <<events[k].s, events[k].e>> = Resolved(segs[s])

C8_Witness ==
  /\ Returned /\ ~merge /\ result.status = "success" /\ Len(segs) = 2
  /\ result.output_paths[1] # result.output_paths[2]
  /\ Resolved(segs[1]) # Resolved(segs[2])

\* The file name the specification gives the segment at 0-based position s.
SpecPath(s, label) ==
  BasePath.parent \o "/" \o BasePath.stem \o "_"
    \o (IF label # NoLabel THEN label ELSE "segment_" \o Pad3(s + 1))
    \o BasePath.suffix

\* C9: a labelled segment is written to <stem>_<label><ext>, an unlabeled
\* one at 0-based position i to <stem>_segment_{i+1:03}<ext>.
C9_SegmentFileNames ==
  \A k \in EventsOf({"write"}) :
    (events[k].ok /\ NumericSegments) =>
      events[k].path = SpecPath(events[k].seg, segs[events[k].seg + 1].label)

\* C10: the labels generated for N unlabeled segments are pairwise distinct
\* and are exactly segment_001 ... segment_00N.
C10_GeneratedLabels ==
  (/\ Returned /\ ~merge /\ result.status = "success" /\ NumericSegments
   /\ \A s \in 1..Len(segs) : segs[s].label = NoLabel)
    => /\ \A a, b \in 1..Len(segs) :
            a # b => result.output_paths[a] # result.output_paths[b]
       /\ {result.output_paths[s] : s \in 1..Len(segs)}
            = {SpecPath(s - 1, NoLabel) : s \in 1..Len(segs)}

\* C7: every call of cut_video and cut_video_by_scenes ends by returning a
\* dict with status 'success' or 'error' and a message; no exception leaves
\* an entry point, and no call stops before it has returned.
C7_EntryPointsReturn ==
  /\ result.status # "raised"
  /\ Returned => /\ result.status \in {"success", "error"}
                 /\ result.message # ""
  /\ ~Returned => ENABLED NextEntry

C7_Witness ==
  /\ Returned /\ entry = "scenes" /\ result.status = "error"
  /\ result.message = "Error cutting segment" /\ result.cause = "write"

\* The invariant of C1 on jobs whose coordinates are all numbers: there the
\* clamping of lines 225-234 does keep it.
ClampingInvariantOnNumbers == NumericSegments => C1_ClampingInvariant

OutputPath == BasePath.parent \o "/" \o BasePath.stem \o BasePath.suffix

OkSubclipsBefore(k) == {j \in EventsOf({"subclip"}) : j < k /\ events[j].ok}

\* C11: a successful non-merge job of N segments makes exactly N writes, one
\* per segment, each right after the sub-clip of its segment; a merge job
\* makes no per-segment write and, when it succeeds, exactly one write, of
\* the concatenated clip to output_path, after all N sub-clips were taken.
C11_WritesPerMode ==
  /\ \A k \in EventsOf({"write"}) :
       /\ ~merge
       /\ k > 1
       /\ events[k - 1].op = "subclip" /\ events[k - 1].ok
       /\ events[k - 1].seg = events[k].seg
       /\ \A j \in EventsOf({"write"}) : events[j].seg = events[k].seg => j = k
  /\ (Returned /\ ~merge /\ result.status = "success")
       => /\ Cardinality(EventsOf({"write"})) = Len(segs)
          /\ \A k \in EventsOf({"write"}) : events[k].ok
          /\ EventsOf({"concatenate", "write_merged"}) = {}
  /\ \A k \in EventsOf({"write_merged"}) :
       /\ merge
       /\ events[k].path = OutputPath
       /\ Cardinality(OkSubclipsBefore(k)) = Len(segs)
       /\ events[k - 1].op = "concatenate" /\ events[k - 1].ok
       /\ EventsOf({"write_merged"}) = {k}
  /\ (Returned /\ merge /\ result.status = "success")
       => \E k \in EventsOf({"write_merged"}) : events[k].ok

C11_Witness ==
  /\ Returned /\ merge /\ result.status = "success" /\ Len(segs) = 2
  /\ Cardinality(EventsOf({"subclip"})) = 2
  /\ Cardinality(EventsOf({"write_merged"})) = 1
  /\ EventsOf({"write"}) = {}

\* The merge step has run and returned.
MergeReturned == merge /\ EventsOf({"concatenate"}) # {}

\* C12: after _merge_segments returns, with success or with an error, none
\* of the input clip handles it was given is open.
C12_MergeClosesClips ==
  (MergeReturned /\ NumericSegments)
    => \A h \in handles : h.kind # "clip"

\* C13: in merge mode the clips handed to concatenate_videoclips are the
\* sub-clips of the input segments, one per segment and in input order,
\* whatever their order in time, their overlaps and their repetitions.
C13_MergeInInputOrder ==
  MergeReturned
    => /\ Len(merged) = Len(segs)
       /\ \A k \in 1..Len(merged) :
            /\ merged[k].id = k - 1
            /\ <<merged[k].s, merged[k].e>> = Resolved(segs[k])

\* A merge of two segments of the same range.
C13_Witness ==
  /\ Returned /\ merge /\ result.status = "success" /\ Len(merged) = 2
  /\ <<merged[1].s, merged[1].e>> = <<merged[2].s, merged[2].e>>
  /\ Lt(merged[1].s, merged[1].e)

\* d1 + ... + dn for the clamped intervals of the job's segments.
RECURSIVE SumOfClamped(_)
SumOfClamped(k) ==
  IF k = 0 THEN R(0)
  ELSE LET iv   == Resolved(segs[k])
           rest == SumOfClamped(k - 1)
           d    == Q(iv[2].n * iv[1].d - iv[1].n * iv[2].d, iv[1].d * iv[2].d)
       IN  Q(rest.n * d.d + d.n * rest.d, rest.d * d.d)

\* C14: a successful merge of N segments reports segments_count = N and
\* duration = the sum of the segments' clamped durations, and has written
\* one file, at output_path.
C14_MergeResult ==
  (Returned /\ entry = "cutter" /\ merge /\ result.status = "success")
    => /\ result.segments_count = Len(segs)
       /\ result.duration = SumOfClamped(Len(segs))
       /\ result.output_path = OutputPath
       /\ \E k \in EventsOf({"write_merged"}) :
            /\ events[k].ok /\ events[k].path = OutputPath
            /\ EventsOf({"write", "write_merged"}) = {k}

C14_Witness ==
  /\ Returned /\ entry = "cutter" /\ merge /\ result.status = "success"
  /\ Len(segs) = 2 /\ NumericSegments
  /\ Resolved(segs[1]) # Resolved(segs[2])
  /\ result.duration = R(5)

\* The scan of cut_video_by_scenes has opened the source and finished.
ScanDone ==
  /\ entry = "scenes" /\ pc \notin {"sc_open", "sc_loop"}
  /\ \E k \in EventsOf({"open_scan"}) : events[k].ok

\* The scan placed no boundary: the current scene still starts at 0.
NoBoundary == scan.scene_start = R(0)

NoSegmentsMessage == "No segments provided for cutting"

\* What C15 promises of a scan without boundary.
OneFullScene ==
  /\ scan.scenes = << <<R(0), duration>> >>
  /\ Len(segs) = 1
  /\ Returned
       => /\ result.message # NoSegmentsMessage
          /\ result.status = "success"
               => /\ Len(result.output_paths) = 1
                  /\ \E k \in EventsOf({"write"}) :
                       events[k].ok /\ events[k].s = R(0) /\ events[k].e = duration

\* C15: when the scan places no boundary, whatever the duration, scene
\* detection yields the one segment [0, duration] and cut_video_by_scenes
\* does not fail for lack of scenes: its output covers the whole source.
\* Stated for calls that leave max_scenes unset.
C15_NoBoundaryOneScene ==
  (ScanDone /\ NoBoundary /\ scan.max_scenes = <<>>) => OneFullScene

\* The segments are consecutive scenes from the start of the video.
ScenesFromStart ==
  /\ Len(segs) > 0 => segs[1].start = R(0)
  /\ \A k \in 1..(Len(segs) - 1) : segs[k + 1].start = segs[k].end

\* C16: when max_scenes is set, cut_video_by_scenes cuts at most max_scenes
\* segments, and these are the first scenes detected, in time order. Stated
\* for the values of max_scenes that are not negative.
C16_MaxScenesCap ==
  (ScanDone /\ scan.max_scenes # <<>> /\ scan.max_scenes[1] >= 0)
    => /\ Len(segs) <= scan.max_scenes[1]
       /\ ScenesFromStart
       /\ (Returned /\ result.status = "success")
            => Len(result.output_paths) <= scan.max_scenes[1]

\* x is the number num / den, for integers num and den > 0.
IsRatio(x, num, den) == ~IsNaN(x) /\ x.n * den = num * x.d

\* The reference conversion of one coordinate c of a segment of mode m, on a
\* source of frame rate r > 0 and duration D: c, c / r, or c / 100 * D.
IsReference(x, c, m, r, D) ==
  IF m = "time" THEN x = c
  ELSE IF IsNaN(c) \/ IsNaN(D) THEN IsNaN(x)
  ELSE IF m = "frame" THEN IsRatio(x, c.n, c.d * r)
  ELSE IsRatio(x, c.n * D.n, c.d * 100 * D.d)

\* C17: the resolver returns the reference conversion of the segment (time:
\* (a, b); frame at rate r > 0: (a / r, b / r); percentage of duration D:
\* (a / 100 * D, b / 100 * D)) and changes nothing else.
C17_ResolverIsReference ==
  [][(pc = "resolve" /\ segs[1].mode \in {"time", "frame", "percentage"}
        /\ (segs[1].mode = "frame" => fps > 0))
      => /\ resolved'[1].ok
         /\ IsReference(resolved'[1].s, segs[1].start, segs[1].mode, fps, duration)
         /\ IsReference(resolved'[1].e, segs[1].end, segs[1].mode, fps, duration)
         /\ UNCHANGED <<inputs, i, events, handles, cutClips, outputPaths, result,
                        failed, merged, conc>>]_vars

\* Frames 3 and 150 at 2 frames per second are 1.5 s and 75 s.
C17_Witness ==
  /\ entry = "resolver" /\ pc = "done"
  /\ segs[1].mode = "frame" /\ fps = 2
  /\ segs[1].start = R(3) /\ segs[1].end = R(150)
  /\ resolved[1].s = Q(3, 2) /\ resolved[1].e = R(75)

\* A percentage segment given as numbers, with start < end.
PercentageSegment(segment) ==
  /\ segment.mode = "percentage"
  /\ ~IsNaN(segment.start) /\ ~IsNaN(segment.end)
  /\ Lt(segment.start, segment.end)

\* The job ended on the segment at 0-based position f, rejected as invalid.
RejectedAsInvalid(f) ==
  Returned /\ failed = {f} /\ result.message = "Invalid segment"

\* C18 as stated: on a video of positive duration, a percentage segment with
\* a boundary above 100, start or end, is never rejected as invalid.
C18_NeverRejected ==
  \A k \in 1..Len(segs) :
    (/\ PercentageSegment(segs[k]) /\ Gt(duration, R(0))
     /\ Gt(segs[k].start, R(100)) \/ Gt(segs[k].end, R(100)))
      => ~RejectedAsInvalid(k - 1)

\* C18, amended: an end above 100 is clamped to the duration, and the
\* segment is then rejected only when one ending at 100 would be (its start
\* is at 100 or above, or the video is empty); a start at 100 or above is
\* not clamped, and such a segment is never cut.
C18_EndAbove100Clamped ==
  \A k \in 1..Len(segs) :
    PercentageSegment(segs[k])
      => /\ Gt(segs[k].end, R(100))
              => /\ \A j \in SegmentEvents :
                      events[j].seg = k - 1 => events[j].e = duration
                 /\ RejectedAsInvalid(k - 1)
                      => Ge(segs[k].start, R(100)) \/ duration = R(0)
         /\ Ge(segs[k].start, R(100))
              => /\ \A j \in SegmentEvents : events[j].seg # k - 1
                 /\ (Returned /\ k - 1 \in failed) => RejectedAsInvalid(k - 1)

\* The segment (0 %, 150 %) of a 4 s video was written as (0 s, 4 s).
C18_Witness ==
  /\ Returned /\ ~merge /\ result.status = "success" /\ duration = R(4)
  /\ Len(segs) = 1 /\ PercentageSegment(segs[1]) /\ segs[1].end = R(150)
  /\ \E j \in EventsOf({"write"}) :
       events[j].ok /\ events[j].s = R(0) /\ events[j].e = R(4)

MissingFrameRate == "Cannot use frame mode: video FPS not available"

\* C19: on a source without a frame rate (absent or 0), no sub-clip is taken
\* and no file is written for a frame-mode segment; the job that comes to
\* such a segment returns the missing-frame-rate error for it, and a job
\* holding one never returns success.
C19_FrameModeNeedsRate ==
  \A k \in 1..Len(segs) :
    (segs[k].mode = "frame" /\ fps = 0)
      => /\ \A j \in SegmentEvents : events[j].seg # k - 1
         /\ \A c \in 1..Len(cutClips) : cutClips[c].id # k - 1
         /\ Returned => result.status = "error"
         /\ (Returned /\ k - 1 \in failed)
              => /\ result.message = "Error cutting segment"
                 /\ result.cause = MissingFrameRate
                 /\ result.index = k - 1

\* The first segment was cut and written, the second is in frames.
C19_Witness ==
  /\ Returned /\ fps = 0 /\ ~merge /\ Len(segs) = 2
  /\ segs[1].mode = "time" /\ segs[2].mode = "frame"
  /\ failed = {1}
  /\ result.status = "error" /\ result.cause = MissingFrameRate
  /\ \E j \in EventsOf({"write"}) : events[j].seg = 0 /\ events[j].ok

\* What job j has if it runs alone: no error, and in each file it has written
\* the audio of its own clip (or none, for clips without audio).
AsAlone(j) ==
  /\ jobs[j].status # "error"
  /\ \A k \in 1..Len(jobs[j].written) :
       jobs[j].written[k] = IF jobs[j].audio THEN j ELSE "<silent>"

\* C20: two jobs running at the same time share no file, temporary files
\* included, so in every interleaving of their steps each job has the
\* result it has when running alone.
C20_JobsShareNothing == \A j \in Jobs : AsAlone(j)

\* The spellings of cut_mode and quality that name a member of the enums.
RecognisedMode(m) == m \in {"time", "TIME", "frame", "percentage", "scene"}

RecognisedQuality(q) == q \in {"Original", "original", "high", "medium", "low"}

\* The call touched nothing: no directory made, no source opened, no clip
\* cut or written, no cutter job started.
NothingTouched ==
  events = <<>> /\ handles = {} /\ cutClips = <<>> /\ outputPaths = <<>> /\ i = 1

\* C21: cut_video returns an error for an unrecognised cut_mode, then for
\* an unrecognised quality, then for malformed cuts JSON, in this order,
\* whether the video exists or not, and has then touched nothing.
C21_ArgumentsValidatedFirst ==
  (entry = "cut_video" /\ Returned /\ fnArgs.cut_mode # PyNone)
    => LET badMode    == ~RecognisedMode(fnArgs.cut_mode)
           badQuality == ~RecognisedQuality(fnArgs.quality)
           badCuts    == fnArgs.cuts.kind = "badjson"
           expected   == IF badMode THEN "Invalid cut mode"
                         ELSE IF badQuality THEN "Invalid quality"
                         ELSE "Invalid cuts JSON format"
       IN  (badMode \/ (fnArgs.quality # PyNone /\ (badQuality \/ badCuts)))
             => /\ result.status = "error"
                /\ result.message = expected
                /\ NothingTouched

\* Every argument is wrong and the video does not exist: the mode is named.
C21_Witness ==
  /\ entry = "cut_video" /\ Returned /\ ~videoExists
  /\ fnArgs.cut_mode = "bogus" /\ fnArgs.quality = "bogus"
  /\ fnArgs.cuts.kind = "badjson"
  /\ result.status = "error" /\ result.message = "Invalid cut mode"
  /\ NothingTouched

SceneKeys == {"scenes_detected", "scene_boundaries"}

\* C22: a successful cut_video_by_scenes carries scenes_detected and
\* scene_boundaries, with scenes_detected = the number of boundaries = the
\* number of segments cut; the cut is not a merge and the scene at 0-based
\* position i is labelled scene_{i+1}; a failed call carries neither key.
C22_SceneResult ==
  (entry = "scenes" /\ Returned)
    => IF result.status = "success"
         THEN /\ SceneKeys \subseteq result.keys
              /\ result.scenes_detected = Len(result.scene_boundaries)
              /\ result.scenes_detected = Len(segs)
              /\ Len(result.output_paths) = Len(segs)
              /\ ~merge /\ EventsOf({"concatenate", "write_merged"}) = {}
              /\ \A k \in 1..Len(segs) :
                   /\ segs[k].label = "scene_" \o ToString(k)
                   /\ segs[k].mode = "time"
                   /\ result.scene_boundaries[k] = <<segs[k].start, segs[k].end>>
         ELSE /\ result.status = "error"
              /\ SceneKeys \cap result.keys = {}
              /\ result.scenes_detected = -1 /\ result.scene_boundaries = <<>>

\* Two scenes were detected and cut.
C22_Witness ==
  /\ entry = "scenes" /\ Returned /\ result.status = "success"
  /\ result.scenes_detected = 2 /\ Len(result.scene_boundaries) = 2
  /\ segs[1].label = "scene_1" /\ segs[2].label = "scene_2"

\* C23: no call of cut_video whose cut_mode passed the parsing of the mode
\* ends with the error 'Unsupported cut mode'.
C23_UnsupportedModeUnreachable ==
  (entry = "cut_video" /\ Returned) => result.cause # "Unsupported cut mode"

\* C24: the result of a job that ended on a failed segment names the index
\* of that segment, for a segment invalid after clamping as for an error
\* raised while processing it, whose underlying message it carries too.
C24_FailureNamesIndex ==
  (Returned /\ NumericSegments)
    => \A f \in failed :
         /\ result.status = "error"
         /\ result.index = f
         /\ result.message = "Error cutting segment" => result.cause # ""

\* The length of a scene (start, end) is at least n seconds.
LastsAtLeast(scene, n) ==
  scene[2].n * scene[1].d - scene[1].n * scene[2].d >= n * scene[1].d * scene[2].d

\* A step of the scan that places a boundary.
PlacesBoundary == pc = "sc_loop" /\ pc' = "sc_loop" /\ Len(scan'.scenes) > Len(scan.scenes)

\* C25: the scan places a boundary at sample time t only when the frame
\* sampled differs from the previous sampled frame by more than the
\* threshold and t is at least min_scene_length past the start of the
\* current scene; so every scene closed by the scan lasts at least
\* min_scene_length.
C25_BoundaryRule ==
  /\ [][PlacesBoundary
          => /\ scan.prev_frame # <<>>
             /\ Abs(scan'.prev_frame[1] - scan.prev_frame[1]) > scan.threshold
             /\ scan.current_time * scan.scene_start.d - scan.scene_start.n
                  >= scan.min_scene_length * scan.scene_start.d
             /\ scan'.scenes = Append(scan.scenes, <<scan.scene_start, R(scan.current_time)>>)
             /\ scan'.scene_start = R(scan.current_time)]_vars
  /\ [](pc = "sc_loop"
          => \A k \in 1..Len(scan.scenes) :
               LastsAtLeast(scan.scenes[k], scan.min_scene_length))

\* With min_scene_length 2 the first boundary was placed at 2 s.
C25_Witness ==
  /\ pc = "sc_loop" /\ scan.min_scene_length = 2
  /\ scan.scenes = << <<R(0), R(2)>> >>
  /\ scan.scene_start = R(2)

\* The scenes tile [0, dur]: there is a first scene and it starts at 0, each
\* scene is not empty and starts where the one before it ended, and the
\* last one ends at dur.
Tiles(scenes, dur) ==
  /\ Len(scenes) >= 1
  /\ scenes[1][1] = R(0)
  /\ \A k \in 1..Len(scenes) : Lt(scenes[k][1], scenes[k][2])
  /\ \A k \in 1..(Len(scenes) - 1) : scenes[k + 1][1] = scenes[k][2]
  /\ scenes[Len(scenes)][2] = dur

\* C26: the scenes detected, before any truncation by max_scenes, tile the
\* video, the final scene ending at duration whatever its length. Stated on
\* the calls that leave max_scenes unset, whose scene list is not truncated.
C26_ScenesTileVideo ==
  (ScanDone /\ scan.max_scenes = <<>>) => Tiles(scan.scenes, duration)

\* Some sample of the scan has failed.
SampleFailed == \E k \in EventsOf({"get_frame"}) : ~events[k].ok

\* Every sample of the scan has failed, and there was one.
EverySampleFailed ==
  /\ EventsOf({"get_frame"}) # {}
  /\ \A k \in EventsOf({"get_frame"}) : ~events[k].ok

C28_NoHandleLeftOpen ==
  (Returned /\ entry = "cutter" /\ ~merge /\ NumericSegments) => handles = {}

\* A successful job that wrote one file per segment.
WroteSegmentFiles ==
  Returned /\ entry = "cutter" /\ ~merge /\ result.status = "success"

\* C29 as stated: the output paths of a successful non-merge job are
\* pairwise distinct, whatever the labels.
C29_PathsDistinct ==
  (WroteSegmentFiles /\ NumericSegments)
    => \A a, b \in 1..Len(result.output_paths) :
         a # b => result.output_paths[a] # result.output_paths[b]

\* What names the file of the segment at position k (1-based): its label,
\* or segment_NNN of its 0-based index when it has none (fewer than 10
\* segments).
FileTag(k) ==
  IF segs[k].label # PyNone /\ segs[k].label # ""
    THEN segs[k].label
    ELSE "segment_00" \o ToString(k - 1)

\* C29, amended: two segments of a successful non-merge job have the same
\* output path exactly when they carry the same label, or when the label of
\* one is the name segment_NNN generated for the other, unlabeled; so
\* unlabeled segments, and segments with distinct labels that are not such
\* generated names, have pairwise distinct paths.
C29_PathsDistinctUnlessSameTag ==
  WroteSegmentFiles
    => \A a, b \in 1..Len(segs) :
         a # b => ((result.output_paths[a] = result.output_paths[b])
                     <=> (FileTag(a) = FileTag(b)))

\* An unlabeled and a labelled segment were written to two files.
C29_Witness ==
  /\ WroteSegmentFiles /\ Len(segs) = 2
  /\ segs[1].label = PyNone /\ segs[2].label = "intro"
  /\ result.output_paths[1] # result.output_paths[2]

\* ceil(x) for a number x.
Ceil(x) == -((-x.n) \div x.d)

\* C30: each sample of the scan, failed or not, advances the sample time by
\* the one-second interval, the scan takes at most ceil(duration) samples,
\* and every call of cut_video_by_scenes returns.
C30_ScanTerminates ==
  /\ [](entry = "scenes"
          => /\ Cardinality(EventsOf({"get_frame"})) = scan.current_time
             /\ scan.current_time <= Ceil(duration))
  /\ [][(pc = "sc_loop" /\ pc' = "sc_loop")
          => scan'.current_time = scan.current_time + 1]_vars
  /\ (entry = "scenes") ~> Returned

\* A scan of a 2.5 s video: three samples, failed ones among them.
C30_Witness ==
  /\ entry = "scenes" /\ Returned /\ duration = Q(5, 2)
  /\ Cardinality(EventsOf({"get_frame"})) = 3
  /\ SampleFailed /\ ~EverySampleFailed

====
